---- MODULE Spec2Model ----
(***************************************************************************)
(* Model of the review search engine of src/2v/step2_search.py:            *)
(* SemanticSearch.search_reviews, search_places, get_place_highlights and  *)
(* get_place_sentiment_stats, with the two-field session cache             *)
(* (_last_relevant_reviews, _last_query_sentiment).                        *)
(*                                                                         *)
(* Numbers.  Scores are real numbers in the code; here they are exact      *)
(* integers: a similarity is counted in 1/1000, a sentiment weight in      *)
(* 1/10, a sentiment alignment in 1/100, so that final_review_score        *)
(* (their product) is counted in 1/1000000.                                *)
(*                                                                         *)
(* Texts are sequences of characters drawn from a small alphabet:          *)
(*   "g" "b" "n" "x"  letters;  "sp" space;  "tab" tab;                    *)
(*   "nbsp" U+00A0 (NFKC folds it to a space);                             *)
(*   "lig" U+FB01 (NFKC expands it to the two letters "f" "i");            *)
(*   "sur" a lone surrogate (lost by encode("utf-8", "ignore")).           *)
(* A Python value that may or may not be a string is a record              *)
(* [str |-> BOOLEAN, s |-> characters].                                    *)
(*                                                                         *)
(* Rows.  A row of reviews_df, and a scored row made from it, carries the  *)
(* index label of the review; its text column is read through the label    *)
(* (TextOf), the corpus being immutable after load.                        *)
(***************************************************************************)
EXTENDS Integers, Sequences, FiniteSets, TLC

VARIABLES
    reviews_df,              \* self.reviews_df (after the filter of __init__)
    last_relevant_reviews,   \* self._last_relevant_reviews
    last_query_sentiment,    \* self._last_query_sentiment
    index_calls,             \* calls of self.index.search
    encode_calls,            \* calls of self.model.encode
    sentiment_calls,         \* calls of self.sentiment_model
    call,                    \* the last call made: its name and arguments
    ret                      \* what the last call returned or raised

\* index_calls, encode_calls and sentiment_calls count the calls the LAST API
\* call made (a mock's call count, read before and after the call).

vars == <<reviews_df, last_relevant_reviews, last_query_sentiment,
          index_calls, encode_calls, sentiment_calls, call, ret>>

\* ------------------------------------------------------------------ bounds

\* search_places is called with top_k omitted or in 0..MaxTopK
MaxTopK == 1
\* search_places is called with min_reviews omitted or in 0..MaxMinReviews
MaxMinReviews == 1
\* get_place_highlights is called with top_k in 0..MaxHighlightK
MaxHighlightK == 3
\* search_reviews is called directly with top_k omitted or in 1..MaxReviewK
MaxReviewK == 1

\* ------------------------------------------------------- program constants

DEFAULT_TOP_K == 10
DEFAULT_MIN_REVIEWS == 3
DEFAULT_AGGREGATION == "weighted"
\* search_places asks search_reviews for this many reviews
PLACES_REVIEW_CEILING == 300
\* search_reviews asks the index for top_k * this
OVERFETCH == 5
\* groupby(...).head(15)
PER_PLACE_CAP == 15
\* query[:512], t[:512]
CLASSIFIER_CHARS == 512
\* len(text.strip()) > 20 in get_place_highlights
HIGHLIGHT_MIN_CHARS == 20
\* default top_k of search_reviews
REVIEWS_TOP_K == 200
\* min_score, in 1/1000000
MIN_SCORE_NEGATIVE == 150000
MIN_SCORE_OTHER == 200000

\* None of Python, where the other values are strings
None == "None"
\* None (or NaN) of Python, where the other values are numbers >= 0
NoneNum == -1
\* self._last_relevant_reviews: None, or a DataFrame with its rows
NoFrame == [none |-> TRUE, rows |-> <<>>]
Frame(rows) == [none |-> FALSE, rows |-> rows]

\* ----------------------------------------------------------- small helpers

Min(a, b) == IF a < b THEN a ELSE b

\* s[:n] of Python, n >= 0
Head_(s, n) == SubSeq(s, 1, Min(n, Len(s)))

RECURSIVE Rep(_, _)
\* n copies of the character c
Rep(c, n) == IF n <= 0 THEN <<>> ELSE <<c>> \o Rep(c, n - 1)

RECURSIVE SumOver(_, _)
\* the sum of f(s[i]) over a sequence of records, here of the field named by f
SumOver(s, f) == IF s = <<>> THEN 0 ELSE s[1][f] + SumOver(Tail(s), f)

RECURSIVE MaxOver(_, _)
MaxOver(s, f) ==
    IF Len(s) = 1 THEN s[1][f]
    ELSE LET m == MaxOver(Tail(s), f) IN IF s[1][f] >= m THEN s[1][f] ELSE m

Count(s, f, v) == Len(SelectSeq(s, LAMBDA r : r[f] = v))

\* ---------------------------------------------------------- normalize_text

IsSpace(c) == c \in {"sp", "tab", "nbsp"}

\* unicodedata.normalize("NFKC", c) of one character
Nfkc(c) == CASE c = "nbsp" -> <<"sp">>
             [] c = "lig"  -> <<"f", "i">>
             [] OTHER      -> <<c>>

RECURSIVE NfkcAll(_)
NfkcAll(s) == IF s = <<>> THEN <<>> ELSE Nfkc(s[1]) \o NfkcAll(Tail(s))

\* text.encode("utf-8", "ignore").decode("utf-8", "ignore")
DropBroken(s) == SelectSeq(s, LAMBDA c : c # "sur")

RECURSIVE JoinSplit(_, _)
\* " ".join(text.split()): acc is the text built so far; runs of white space
\* become one space, leading and trailing white space disappears
JoinSplit(s, acc) ==
    IF s = <<>> THEN acc
    ELSE IF IsSpace(s[1]) THEN
        JoinSplit(Tail(s), IF acc = <<>> \/ acc[Len(acc)] = "sp"
                           THEN acc ELSE acc \o <<"sp">>)
    ELSE JoinSplit(Tail(s), acc \o <<s[1]>>)

StripRight(s) ==
    IF s # <<>> /\ s[Len(s)] = "sp" THEN SubSeq(s, 1, Len(s) - 1) ELSE s

normalize_text(text) ==
    IF ~text.str THEN <<>>
    ELSE StripRight(JoinSplit(DropBroken(NfkcAll(text.s)), <<>>))

RECURSIVE LStrip(_)
LStrip(s) == IF s # <<>> /\ IsSpace(s[1]) THEN LStrip(Tail(s)) ELSE s

RECURSIVE RStrip(_)
RStrip(s) ==
    IF s # <<>> /\ IsSpace(s[Len(s)]) THEN RStrip(SubSeq(s, 1, Len(s) - 1)) ELSE s

\* text.strip() of Python
Strip(s) == RStrip(LStrip(s))

\* ------------------------------------------------ the external collaborators

\* The sentiment classifier, a deterministic stand-in: the label of a text is
\* decided by its first letter among g (positive), b (negative), n (neutral);
\* a text without such a letter is neutral.  result['label'].lower().
RECURSIVE Classify(_)
Classify(s) ==
    IF s = <<>> THEN "neutral"
    ELSE CASE s[1] = "g" -> "positive"
           [] s[1] = "b" -> "negative"
           [] s[1] = "n" -> "neutral"
           [] OTHER      -> Classify(Tail(s))

\* self.sentiment_model(query[:512])[0]['label'].lower()
get_query_sentiment(query) == Classify(Head_(query, CLASSIFIER_CHARS))

\* Number of vectors in the index: one per review of the loaded corpus.
INDEX_NTOTAL == 27

Ids == 0 .. (INDEX_NTOTAL - 1)

\* The normalized texts of the queries the index knows something about.
QTextA == <<"g", "g", "sp", "x">>
QTextB == <<"b", "x">>
QTextC == <<"n", "x">>
QTextD == <<"x", "x">>
QTextE == <<"g", "x", "sp", "x">>

\* the reviews QTextE is close to
NearE == {17, 18, 20, 21, 25}

\* the review QTextC is least close to
FarC == 7

\* What index.search puts in the places of a result it has no vector for
\* (an IndexIVFFlat, built for large corpora, probes part of the vectors
\* only): the id -1, with a distance below every similarity.
NoResultId == -1
NoResultDist == -2000

\* the number of vectors the index finds for QTextD
FoundForD == 10

RECURSIVE IdsFrom(_, _, _)
\* the ids lo, lo + step, ... up to hi (or down to hi when step < 0)
IdsFrom(lo, hi, step) ==
    IF (step > 0 /\ lo > hi) \/ (step < 0 /\ lo < hi) THEN <<>>
    ELSE <<lo>> \o IdsFrom(lo + step, hi, step)

\* Cosine similarity, in 1/1000, of the query with normalized text q and the
\* review embedded at position id of the index.
Similarity(q, id) ==
    IF id = NoResultId THEN NoResultDist
    ELSE
    CASE q = QTextA -> 900 - 10 * id
      [] q = QTextB -> 400 + 10 * id
      [] q = QTextC -> IF id = FarC THEN 250 ELSE 300 + 10 * (id % 4)
      [] q = QTextD -> 50 - 10 * id
      [] q = QTextE -> IF id \in NearE THEN 800 ELSE -50
      [] OTHER      -> 50

\* All ids in the order the index returns them for q: by similarity,
\* highest first.
IndexOrder(q) ==
    CASE q = QTextA -> IdsFrom(0, INDEX_NTOTAL - 1, 1)
      [] q = QTextB -> IdsFrom(INDEX_NTOTAL - 1, 0, -1)
      [] q = QTextC -> SelectSeq(IdsFrom(3, INDEX_NTOTAL - 1, 4) \o IdsFrom(2, INDEX_NTOTAL - 1, 4)
                                 \o IdsFrom(1, INDEX_NTOTAL - 1, 4)
                                 \o IdsFrom(0, INDEX_NTOTAL - 1, 4),
                                 LAMBDA id : id # FarC) \o <<FarC>>
      [] q = QTextE -> SelectSeq(IdsFrom(0, INDEX_NTOTAL - 1, 1), LAMBDA id : id \in NearE)
                       \o SelectSeq(IdsFrom(0, INDEX_NTOTAL - 1, 1), LAMBDA id : id \notin NearE)
      [] q = QTextD -> IdsFrom(0, FoundForD - 1, 1)
                       \o [i \in 1 .. (INDEX_NTOTAL - FoundForD) |-> NoResultId]
      [] OTHER      -> IdsFrom(0, INDEX_NTOTAL - 1, 1)

\* self.index.search(self.model.encode([query]), k): the k nearest ids with
\* their similarities, nearest first.
IndexSearch(q, k) ==
    LET order == Head_(IndexOrder(q), k)
    IN  [i \in 1 .. Len(order) |-> [id |-> order[i], dist |-> Similarity(q, order[i])]]

\* ------------------------------------------------------------ the corpus

\* The place of the review loaded at position id.
PlaceOf(id) ==
    CASE id <= 16 -> 101
      [] id <= 19 -> 102
      [] id <= 21 -> 103
      [] id <= 24 -> 104
      [] id = 25  -> 105
      [] OTHER    -> 106

\* The letter the review's text is written in, which decides its sentiment.
LetterOf(id) ==
    CASE id \in {7, 19, 25, 26}                 -> "b"
      [] id \in {2, 5, 8, 11, 14, 23}           -> "n"
      [] OTHER                                  -> "g"

\* The text column of the review with index label id (every text has more
\* than 10 characters, as load_data of step1_prepare.py leaves it).
TextOf(id) ==
    LET c == LetterOf(id)
    IN  [str |-> TRUE,
         s   |-> CASE id = 1     -> <<"sp", "sp">> \o Rep(c, 19) \o <<"tab">>
                   [] id = 3     -> Rep(c, 10) \o <<"nbsp", "tab", "lig">> \o Rep(c, 10)
                   [] id = 6     -> <<"sur">> \o Rep(c, 21) \o <<"sp">>
                   [] id % 5 = 4 -> Rep(c, 15)
                   [] OTHER      -> Rep(c, 22)]

RECURSIVE LoadedFrom(_, _)
\* the rows id, id + 1, ... of the loaded corpus
LoadedFrom(id, nulls) ==
    IF id >= INDEX_NTOTAL THEN <<>>
    ELSE << [label         |-> id,
             place_firm_id |-> IF id \in nulls THEN NoneNum ELSE PlaceOf(id)] >>
         \o LoadedFrom(id + 1, nulls)

\* metadata['reviews'] as step1_prepare.py saved it; the reviews at the
\* positions in nulls have no place_firm_id.
LoadedReviews(nulls) == LoadedFrom(0, nulls)

\* self.places_df
places_df ==
    << [firm_id |-> 101, name |-> "Cafe"],
       [firm_id |-> 102, name |-> "Bar"],
       [firm_id |-> 103, name |-> "Diner"],
       [firm_id |-> 104, name |-> "Bar"],
       [firm_id |-> 105, name |-> "nan"],
       [firm_id |-> 107, name |-> None] >>

\* reviews_df[reviews_df['place_firm_id'].notna()]
NotNaPlace(df) == SelectSeq(df, LAMBDA r : r.place_firm_id # NoneNum)

\* The corpora the engine is started on, as __init__ leaves them: a complete
\* one, and one loaded with a review that has no place.
Corpora == << NotNaPlace(LoadedReviews({})), NotNaPlace(LoadedReviews({20})) >>

\* df.iloc[i] for one position; a negative position counts from the end
Iloc(df, i) == IF i < 0 THEN df[Len(df) + i + 1] ELSE df[i + 1]

\* --------------------------------------------------------------- scoring

\* sentiment_to_weight, in 1/10
sentiment_to_weight(label) ==
    CASE label = "positive" -> 12
      [] label = "neutral"  -> 10
      [] label = "negative" -> 8
      [] OTHER              -> 10

\* an alignment that ignores both sentiments
align_sentiment_flat(query_sentiment, review_sent) == 100

\* align_sentiment, in 1/100
align_sentiment(query_sentiment, review_sent) ==
    IF query_sentiment = "negative" THEN
        CASE review_sent = "positive" -> 5
          [] review_sent = "negative" -> 250
          [] OTHER                    -> 50
    ELSE IF query_sentiment = "positive" THEN
        CASE review_sent = "negative" -> 5
          [] review_sent = "positive" -> 200
          [] OTHER                    -> 70
    ELSE 100

\* min_score of search_reviews
min_score(query_sentiment) ==
    IF query_sentiment = "negative" THEN MIN_SCORE_NEGATIVE ELSE MIN_SCORE_OTHER

\* a threshold every review passes
PassesAlways(row, query_sentiment) == TRUE

\* results['final_review_score'] > min_score
PassesThreshold(row, query_sentiment) ==
    row.final_review_score > min_score(query_sentiment)

RECURSIVE InsertDesc(_, _, _)
\* row put into s, which is sorted by field f, highest first, after every
\* row that is not smaller
InsertDesc(s, row, f) ==
    IF s = <<>> THEN <<row>>
    ELSE IF s[1][f] >= row[f] THEN <<s[1]>> \o InsertDesc(Tail(s), row, f)
    ELSE <<row>> \o s

RECURSIVE SortDesc(_, _, _)
\* the rows of s sorted by field f, highest first, equal rows in the order
\* they have in s; acc holds the rows sorted so far
SortDesc(s, f, acc) ==
    IF s = <<>> THEN acc ELSE SortDesc(Tail(s), f, InsertDesc(acc, s[1], f))

\* an nlargest that puts the later of two equal rows first
nlargest_later_first(df, n, f) ==
    IF n <= 0 THEN <<>>
    ELSE Head_(SortDesc([i \in 1 .. Len(df) |-> df[Len(df) + 1 - i]], f, <<>>), n)

\* df.nlargest(n, f): keep='first'
nlargest(df, n, f) == IF n <= 0 THEN <<>> ELSE Head_(SortDesc(df, f, <<>>), n)

\* texts = results[text_column].fillna("").astype(str); t[:512]; the label
\* the classifier gives the text of row r
ReviewSentiment(r) ==
    LET text == TextOf(r.label)
    IN  Classify(Head_(IF text.str THEN text.s ELSE <<>>, CLASSIFIER_CHARS))

\* a score that falls as the similarity rises
FinalReviewScoreFalling(dist, w, a) == (2000 - dist) * w * a

\* similarity_score * sentiment_weight * sentiment_alignment
FinalReviewScore(dist, w, a) == dist * w * a

\* One scored row of search_reviews for the review row r found at
\* similarity dist.
ScoreRow(r, dist, query_sentiment) ==
    LET lab == ReviewSentiment(r)
        w   == sentiment_to_weight(lab)
        a   == align_sentiment(query_sentiment, lab)
    IN  [label               |-> r.label,
         place_firm_id       |-> r.place_firm_id,
         similarity_score    |-> dist,
         sentiment_label     |-> lab,
         sentiment_weight    |-> w,
         sentiment_alignment |-> a,
         final_review_score  |-> FinalReviewScore(dist, w, a)]

RECURSIVE ScoreAll(_, _, _)
\* the scored rows of the candidates found, in the order of found
ScoreAll(df, found, query_sentiment) ==
    IF found = <<>> THEN <<>>
    ELSE << ScoreRow(Iloc(df, found[1].id), found[1].dist, query_sentiment) >>
         \o ScoreAll(df, Tail(found), query_sentiment)

\* ---------------------------------------------------------- search_reviews

\* The points of search_reviews at which an upstream call can fail.
FailPoints == {"none", "query_sentiment", "encode", "review_sentiment"}

\* What a call of search_reviews does: the exception it raises (None when it
\* returns), the rows it returns, whether it has written
\* _last_query_sentiment and with which label, and the upstream calls made.
Outcome(raised, rows, written, label, ic, ec, sc) ==
    [raised |-> raised, rows |-> rows, lqs_written |-> written, query_sentiment |-> label,
     index_calls |-> ic, encode_calls |-> ec, sentiment_calls |-> sc]

\* indices[0] < len(self.reviews_df)
ValidMask(df, found) == SelectSeq(found, LAMBDA c : c.id < Len(df))

\* a search that refuses no query
IsInvalidQueryNever(q) == FALSE

\* len(query) == 0: the query is refused
IsInvalidQuery(q) == Len(q) = 0

\* a search that answers a failed review classification with no rows
FilterAndTakeSwallowing(placed, query_sentiment, top_k, fail) ==
    IF placed = <<>> THEN Outcome(None, <<>>, TRUE, query_sentiment, 1, 1, 1)
    ELSE IF fail = "review_sentiment" THEN Outcome(None, <<>>, TRUE, query_sentiment, 1, 1, 2)
    ELSE Outcome(None, nlargest(SelectSeq(placed, LAMBDA r : PassesThreshold(r, query_sentiment)), top_k, "final_review_score"), TRUE, query_sentiment, 1, 1, 2)

\* search_reviews from the threshold filter on (lines 204 to 214): placed are
\* the scored reviews
FilterAndTake(placed, query_sentiment, top_k, fail) ==
    IF placed = <<>> THEN
        Outcome(None, <<>>, TRUE, query_sentiment, 1, 1, 1)
    ELSE IF fail = "review_sentiment" THEN
        Outcome("UpstreamFailure", <<>>, TRUE, query_sentiment, 1, 1, 2)
    ELSE
        Outcome(None,
                nlargest(SelectSeq(placed, LAMBDA r : PassesThreshold(r, query_sentiment)),
                         top_k, "final_review_score"),
                TRUE, query_sentiment, 1, 1, 2)

\* search_reviews from the index search on (lines 137 to 214)
SearchIndex(df, q, query_sentiment, top_k, fail) ==
    FilterAndTake(NotNaPlace(ScoreAll(df,
                                      ValidMask(df, IndexSearch(q, Min(top_k * OVERFETCH,
                                                                       INDEX_NTOTAL))),
                                      query_sentiment)),
                  query_sentiment, top_k, fail)

\* search_reviews once its query is normalized (lines 118 to 214)
SearchNormalized(df, q, top_k, fail) ==
    IF IsInvalidQuery(q) THEN
        Outcome("ValueError", <<>>, FALSE, None, 0, 0, 0)
    ELSE IF fail = "query_sentiment" THEN
        Outcome("UpstreamFailure", <<>>, FALSE, None, 0, 0, 1)
    ELSE IF fail = "encode" THEN
        Outcome("UpstreamFailure", <<>>, TRUE, get_query_sentiment(q), 0, 1, 1)
    ELSE
        SearchIndex(df, q, get_query_sentiment(q), top_k, fail)

\* search_reviews(query, top_k) on the corpus df; fail names the upstream
\* call that fails.
search_reviews(df, query, top_k, fail) ==
    SearchNormalized(df, normalize_text(query), top_k, fail)

\* ----------------------------------------------------------- search_places

\* x or default, of Python, for an argument that is None or a number
OrDefault(x, default) == IF x = NoneNum \/ x = 0 THEN default ELSE x

\* aggregation or config.DEFAULT_AGGREGATION
OrDefaultName(x, default) == IF x = None \/ x = "" THEN default ELSE x

\* df.sort_values("final_review_score", ascending=False)
sort_values(df) == SortDesc(df, "final_review_score", <<>>)

RECURSIVE GroupHeadFrom(_, _, _)
\* the rows of df from position i on that are among the first n of their
\* place in df
GroupHeadFrom(df, i, n) ==
    IF i > Len(df) THEN <<>>
    ELSE LET before == Cardinality({j \in 1 .. (i - 1) :
                                      df[j].place_firm_id = df[i].place_firm_id})
         IN  (IF before < n THEN <<df[i]>> ELSE <<>>) \o GroupHeadFrom(df, i + 1, n)

\* df.groupby("place_firm_id").head(n): the first n rows of every place, in
\* the order of df
GroupHead(df, n) == GroupHeadFrom(df, 1, n)

\* a sequence back to front
Reversed(s) == [i \in 1 .. Len(s) |-> s[Len(s) + 1 - i]]

\* a cap that sorts the reviews ascending and so keeps the lowest of a place
PerPlaceCapAscending(relevant_reviews) ==
    GroupHead(Reversed(sort_values(relevant_reviews)), PER_PLACE_CAP)

\* The per-place cap of search_places.
PerPlaceCap(relevant_reviews) == GroupHead(sort_values(relevant_reviews), PER_PLACE_CAP)

RECURSIVE SortedIds(_)
\* the elements of a set of numbers, smallest first (groupby sorts its keys)
SortedIds(S) ==
    IF S = {} THEN <<>>
    ELSE LET m == CHOOSE x \in S : \A y \in S : x <= y
         IN  <<m>> \o SortedIds(S \ {m})

RECURSIVE ISqrt(_, _, _)
\* the integer square root of n, searched between lo and hi
ISqrt(n, lo, hi) ==
    IF lo >= hi THEN lo
    ELSE LET mid == (lo + hi + 1) \div 2
         IN  IF mid * mid <= n THEN ISqrt(n, mid, hi) ELSE ISqrt(n, lo, mid - 1)

\* np.sqrt(a / b), in 1/1000
Sqrt1000(a, b) == ISqrt((a * 1000000) \div b, 0, 32000)

\* np.log1p(n), in 1/1000, for the review counts a place of the corpus can
\* have
Log1p1000(n) ==
    << 693, 1099, 1386, 1609, 1792, 1946, 2079, 2197,
       2303, 2398, 2485, 2565, 2639, 2708, 2773, 2833,
       2890, 2944, 2996, 3045, 3091, 3135, 3178, 3219,
       3258, 3296, 3332 >>[n]

\* The row of place_scores for place p, from the capped reviews.
PlaceRow(capped, p) ==
    LET mine == SelectSeq(capped, LAMBDA r : r.place_firm_id = p)
        total == SumOver(mine, "final_review_score")
    IN  [place_firm_id    |-> p,
         avg_score        |-> total \div Len(mine),
         max_score        |-> MaxOver(mine, "final_review_score"),
         review_count     |-> Len(mine),
         total_score      |-> total,
         positive_reviews |-> Count(mine, "sentiment_label", "positive"),
         negative_reviews |-> Count(mine, "sentiment_label", "negative"),
         neutral_reviews  |-> Count(mine, "sentiment_label", "neutral")]

RECURSIVE PlaceRows(_, _)
PlaceRows(capped, ids) ==
    IF ids = <<>> THEN <<>>
    ELSE << PlaceRow(capped, ids[1]) >> \o PlaceRows(capped, Tail(ids))

\* relevant_reviews.groupby('place_firm_id').agg(...).reset_index()
Aggregate(capped) ==
    PlaceRows(capped, SortedIds({capped[i].place_firm_id : i \in 1 .. Len(capped)}))

\* a filter that lets a place through with one review less than asked
MinReviewsFilterLoose(place_scores, min_reviews) ==
    SelectSeq(place_scores, LAMBDA r : r.review_count >= min_reviews - 1)

\* place_scores[place_scores['review_count'] >= min_reviews]
MinReviewsFilter(place_scores, min_reviews) ==
    SelectSeq(place_scores, LAMBDA r : r.review_count >= min_reviews)

\* a sentiment ratio that is the same under every query label
SentimentRatioOfPositive(row, query_sentiment) ==
    <<row.positive_reviews + 1, row.negative_reviews + 1>>

\* sentiment_ratio of the weighted strategy, as numerator and denominator
SentimentRatio(row, query_sentiment) ==
    IF query_sentiment = "negative"
    THEN <<row.negative_reviews + 1, row.positive_reviews + row.neutral_reviews + 1>>
    ELSE <<row.positive_reviews + 1, row.negative_reviews + 1>>

\* avg_score * log1p(review_count) * sqrt(sentiment_ratio), in 1/1000000,
\* rounded down to a multiple of 1/10000
WeightedScore(row, query_sentiment) ==
    LET ratio == SentimentRatio(row, query_sentiment)
        volume == ((row.avg_score \div 100) * Log1p1000(row.review_count)) \div 1000
    IN  ((volume * Sqrt1000(ratio[1], ratio[2])) \div 1000) * 100

KnownAggregations == {"mean", "max", "weighted"}

\* final_score of one row of place_scores under a known strategy
FinalScore(row, aggregation, query_sentiment) ==
    CASE aggregation = "mean"     -> row.avg_score
      [] aggregation = "max"      -> row.max_score
      [] aggregation = "weighted" -> WeightedScore(row, query_sentiment)

RECURSIVE WithFinalScore(_, _, _)
\* place_scores['final_score'] = ...
WithFinalScore(place_scores, aggregation, query_sentiment) ==
    IF place_scores = <<>> THEN <<>>
    ELSE LET row == place_scores[1]
         IN  << [place_firm_id    |-> row.place_firm_id,
                 avg_score        |-> row.avg_score,
                 max_score        |-> row.max_score,
                 review_count     |-> row.review_count,
                 total_score      |-> row.total_score,
                 positive_reviews |-> row.positive_reviews,
                 negative_reviews |-> row.negative_reviews,
                 neutral_reviews  |-> row.neutral_reviews,
                 final_score      |-> FinalScore(row, aggregation, query_sentiment)] >>
             \o WithFinalScore(Tail(place_scores), aggregation, query_sentiment)

\* place_scores.nlargest(top_k * 2, 'final_score')
OverFetch(place_scores, top_k) == nlargest(place_scores, top_k * 2, "final_score")

\* The columns search_places returns (address, category and rating are
\* columns the places table of the model does not have).
ResultRow(row, name) ==
    [name             |-> name,
     final_score      |-> row.final_score,
     avg_score        |-> row.avg_score,
     review_count     |-> row.review_count,
     positive_reviews |-> row.positive_reviews,
     negative_reviews |-> row.negative_reviews,
     neutral_reviews  |-> row.neutral_reviews,
     place_firm_id    |-> row.place_firm_id]

RECURSIVE NamedRows(_, _)
NamedRows(row, hits) ==
    IF hits = <<>> THEN <<>>
    ELSE << ResultRow(row, hits[1].name) >> \o NamedRows(row, Tail(hits))

RECURSIVE Merge(_)
\* place_scores.merge(places_df, left_on='place_firm_id', right_on='firm_id',
\* how='left'): a place without metadata keeps one row, with no name
Merge(place_scores) ==
    IF place_scores = <<>> THEN <<>>
    ELSE LET row == place_scores[1]
             hits == SelectSeq(places_df, LAMBDA p : p.firm_id = row.place_firm_id)
         IN  (IF hits = <<>> THEN << ResultRow(row, None) >> ELSE NamedRows(row, hits))
             \o Merge(Tail(place_scores))

RECURSIVE DropDuplicatesFrom(_, _)
DropDuplicatesFrom(results, i) ==
    IF i > Len(results) THEN <<>>
    ELSE (IF \A j \in 1 .. (i - 1) : results[j].name # results[i].name
          THEN <<results[i]>> ELSE <<>>)
         \o DropDuplicatesFrom(results, i + 1)

\* a drop_duplicates that keeps the last row of every name
DropDuplicateNamesLast(results) == Reversed(DropDuplicatesFrom(Reversed(results), 1))

\* results.drop_duplicates(subset=['name'], keep='first')
DropDuplicateNames(results) == DropDuplicatesFrom(results, 1)

\* results[results['name'].notna() & (results['name'] != 'nan')]
DropMissingNames(results) ==
    SelectSeq(results, LAMBDA r : r.name # None /\ r.name # "nan")

\* Steps 5 to 7 of search_places: the ranking returned for place_scores
Rank(place_scores, top_k) ==
    Head_(DropMissingNames(DropDuplicateNames(Merge(OverFetch(place_scores, top_k)))),
          top_k)

\* a search_places that caches what search_reviews gave it, before the cap
PlacesOutcomeUncapped(raised, rows, written, capped, sr) ==
    [raised |-> raised, rows |-> rows, cache_written |-> written, capped |-> sr.rows,
     pool |-> Len(sr.rows),
     lqs_written |-> sr.lqs_written, query_sentiment |-> sr.query_sentiment,
     index_calls |-> sr.index_calls, encode_calls |-> sr.encode_calls,
     sentiment_calls |-> sr.sentiment_calls]

\* What a call of search_places does: the exception it raises (None when it
\* returns), the ranking it returns, whether it has written
\* _last_relevant_reviews and with which rows, what its search_reviews did,
\* and pool, the number of rows search_reviews gave it.
PlacesOutcome(raised, rows, written, capped, sr) ==
    [raised |-> raised, rows |-> rows, cache_written |-> written, capped |-> capped,
     pool |-> Len(sr.rows),
     lqs_written |-> sr.lqs_written, query_sentiment |-> sr.query_sentiment,
     index_calls |-> sr.index_calls, encode_calls |-> sr.encode_calls,
     sentiment_calls |-> sr.sentiment_calls]

\* relevant_reviews.empty: search_places returns before the cache write
ReturnsBeforeCacheWrite(relevant_reviews) == relevant_reviews = <<>>

\* search_places from the final score on (lines 270 to 342); query_sentiment
\* is self._last_query_sentiment or "neutral", read after search_reviews has
\* written it
ScoreAndRank(sr, capped, place_scores, top_k, aggregation) ==
    IF place_scores = <<>> THEN
        PlacesOutcome(None, <<>>, TRUE, capped, sr)
    ELSE IF aggregation \notin KnownAggregations THEN
        PlacesOutcome("ValueError", <<>>, TRUE, capped, sr)
    ELSE
        PlacesOutcome(None,
                      Rank(WithFinalScore(place_scores, aggregation,
                                          IF sr.query_sentiment = None THEN "neutral"
                                          ELSE sr.query_sentiment),
                           top_k),
                      TRUE, capped, sr)

\* an aggregation over all rows search_reviews returned, the capped rows
\* being cached
CacheAndAggregateRaw(sr, capped, top_k, min_reviews, aggregation) == ScoreAndRank(sr, capped, MinReviewsFilter(Aggregate(sr.rows), min_reviews), top_k, aggregation)

\* search_places from the cache write on (lines 247 to 342): capped is the
\* capped set of reviews
CacheAndAggregate(sr, capped, top_k, min_reviews, aggregation) ==
    ScoreAndRank(sr, capped, MinReviewsFilter(Aggregate(capped), min_reviews),
                 top_k, aggregation)

\* search_places once search_reviews has returned or raised (lines 232 to
\* 342): sr is what search_reviews did
PlacesOfReviews(sr, top_k, min_reviews, aggregation) ==
    IF sr.raised # None THEN
        PlacesOutcome(sr.raised, <<>>, FALSE, <<>>, sr)
    ELSE IF ReturnsBeforeCacheWrite(sr.rows) THEN
        PlacesOutcome(None, <<>>, FALSE, <<>>, sr)
    ELSE
        CacheAndAggregate(sr, PerPlaceCap(sr.rows), top_k, min_reviews, aggregation)

\* search_places(query, top_k, min_reviews, aggregation) on the corpus df
\* (lines 225 to 230, then the steps above)
search_places(df, query, top_k_arg, min_reviews_arg, aggregation_arg, fail) ==
    PlacesOfReviews(search_reviews(df, query, PLACES_REVIEW_CEILING, fail),
                    OrDefault(top_k_arg, DEFAULT_TOP_K),
                    OrDefault(min_reviews_arg, DEFAULT_MIN_REVIEWS),
                    OrDefaultName(aggregation_arg, DEFAULT_AGGREGATION))

\* ------------------------------------- get_place_highlights, sentiment stats

\* the marker of a sentiment label
Indicator(sentiment) ==
    CASE sentiment = "positive" -> <<"[+]">>
      [] sentiment = "negative" -> <<"[-]">>
      [] sentiment = "neutral"  -> <<"[~]">>
      [] OTHER                  -> <<>>

\* isinstance(text, str) and len(text.strip()) > 20
LongEnough(text) == text.str /\ Len(Strip(text.s)) > HIGHLIGHT_MIN_CHARS

\* f"{indicator} {text}" for one row
Highlight(row) ==
    Indicator(row.sentiment_label) \o <<"sp">> \o normalize_text(TextOf(row.label))

\* a place filter that keeps the reviews of every place
PlaceReviewsAny(cache, place_firm_id) == cache.rows

\* self._last_relevant_reviews[... ['place_firm_id'] == int(place_firm_id)]
PlaceReviews(cache, place_firm_id) ==
    SelectSeq(cache.rows, LAMBDA r : r.place_firm_id = place_firm_id)

\* highlights that drop the short texts before taking the top_k
HighlightRowsFilterFirst(cache, place_firm_id, top_k) ==
    IF cache.none \/ cache.rows = <<>> THEN <<>>
    ELSE nlargest(SelectSeq(PlaceReviews(cache, place_firm_id),
                            LAMBDA r : LongEnough(TextOf(r.label))),
                  top_k, "final_review_score")

\* The rows of the cache that get_place_highlights(place_firm_id, top_k)
\* turns into highlights, in the order of the highlights.
HighlightRows(cache, place_firm_id, top_k) ==
    IF cache.none \/ cache.rows = <<>> THEN <<>>
    ELSE LET top_reviews == nlargest(PlaceReviews(cache, place_firm_id), top_k,
                                     "final_review_score")
         IN  SelectSeq(top_reviews, LAMBDA r : LongEnough(TextOf(r.label)))

RECURSIVE Highlights(_)
Highlights(rows) ==
    IF rows = <<>> THEN <<>> ELSE << Highlight(rows[1]) >> \o Highlights(Tail(rows))

\* get_place_highlights(place_firm_id, top_k=top_k)
get_place_highlights(cache, place_firm_id, top_k) ==
    Highlights(HighlightRows(cache, place_firm_id, top_k))

\* sentiment stats that fall back to the whole cache for a place without
\* cached reviews
get_place_sentiment_stats_fallback(cache, place_firm_id) ==
    LET place_reviews == IF PlaceReviews(cache, place_firm_id) = <<>> THEN cache.rows
                         ELSE PlaceReviews(cache, place_firm_id)
    IN  [positive |-> Count(place_reviews, "sentiment_label", "positive"),
         negative |-> Count(place_reviews, "sentiment_label", "negative"),
         neutral  |-> Count(place_reviews, "sentiment_label", "neutral")]

\* get_place_sentiment_stats(place_firm_id)
get_place_sentiment_stats(cache, place_firm_id) ==
    IF cache.none THEN [positive |-> 0, negative |-> 0, neutral |-> 0]
    ELSE LET place_reviews == PlaceReviews(cache, place_firm_id)
         IN  IF place_reviews = <<>> THEN [positive |-> 0, negative |-> 0, neutral |-> 0]
             ELSE [positive |-> Count(place_reviews, "sentiment_label", "positive"),
                   negative |-> Count(place_reviews, "sentiment_label", "negative"),
                   neutral  |-> Count(place_reviews, "sentiment_label", "neutral")]

\* ------------------------------------------------------------- the inputs

Str(s) == [str |-> TRUE, s |-> s]

\* a query that is not a string
NotAString == [str |-> FALSE, s |-> <<>>]

QueryA == Str(<<"sp", "g", "g", "nbsp", "tab", "x", "sp">>)
QueryB == Str(<<"b", "x">>)
QueryC == Str(<<"n", "x", "sur">>)
QueryD == Str(<<"x", "x">>)
QueryE == Str(<<"g", "x", "tab", "x">>)

\* the queries with some text
TextQueries == {QueryA, QueryB, QueryC, QueryD, QueryE}

\* the queries whose text normalizes to the empty string
EmptyQueries == {Str(<<>>), Str(<<"sp", "tab", "nbsp">>), Str(<<"sur">>), NotAString}

QueryArgs == TextQueries \cup EmptyQueries

HighlightKArgs == 0 .. MaxHighlightK

\* the place ids asked about: those of the corpus and one unknown to it
PlaceArgs == {101, 102, 103, 104, 105, 106, 999}

TextQuerySeq == << QueryA, QueryB, QueryC, QueryD, QueryE >>
QuerySeq ==
    TextQuerySeq \o << Str(<<>>), Str(<<"sp", "tab", "nbsp">>), Str(<<"sur">>), NotAString >>
AggregationSeq == << None, "mean", "max", "weighted", "median" >>
FailSeq == << "none", "query_sentiment", "encode", "review_sentiment" >>

\* the sequence f[1], ..., f[n] of a function f on 1 .. n
AsSeq(f, n) == SubSeq(f, 1, n)

\* The calls of search_places the model makes: every query with some text
\* under every choice of the three parameters (top_k and min_reviews omitted
\* or from 0 up to their bounds), and every query, with the parameters
\* omitted, under every upstream failure.
PlacesCallSeq ==
    LET nt == MaxTopK + 2
        nm == MaxMinReviews + 2
        na == Len(AggregationSeq)
        full == Len(TextQuerySeq) * nt * nm * na
        failing == Len(QuerySeq) * (Len(FailSeq) - 1)
        empty == Len(QuerySeq) - Len(TextQuerySeq)
    IN  AsSeq([k \in 1 .. full |->
                  [op          |-> "search_places",
                   query       |-> TextQuerySeq[((k - 1) \div (nt * nm * na)) + 1],
                   top_k       |-> (((k - 1) \div (nm * na)) % nt) - 1,
                   min_reviews |-> (((k - 1) \div na) % nm) - 1,
                   aggregation |-> AggregationSeq[((k - 1) % na) + 1],
                   fail        |-> "none"]], full)
        \o
        AsSeq([k \in 1 .. failing |->
                  [op          |-> "search_places",
                   query       |-> QuerySeq[((k - 1) \div (Len(FailSeq) - 1)) + 1],
                   top_k       |-> NoneNum,
                   min_reviews |-> NoneNum,
                   aggregation |-> None,
                   fail        |-> FailSeq[((k - 1) % (Len(FailSeq) - 1)) + 2]]], failing)
        \o
        AsSeq([k \in 1 .. empty |->
                  [op          |-> "search_places",
                   query       |-> QuerySeq[Len(TextQuerySeq) + k],
                   top_k       |-> NoneNum,
                   min_reviews |-> NoneNum,
                   aggregation |-> None,
                   fail        |-> "none"]], empty)

\* The direct calls of search_reviews the model makes: every query with top_k
\* omitted or from 1 up to its bound, and every query with some text, with
\* top_k omitted, under every upstream failure.
ReviewsCallSeq ==
    LET nk == MaxReviewK + 1
        full == Len(QuerySeq) * nk
        failing == Len(TextQuerySeq) * (Len(FailSeq) - 1)
    IN  AsSeq([k \in 1 .. full |->
                  [op    |-> "search_reviews",
                   query |-> QuerySeq[((k - 1) \div nk) + 1],
                   top_k |-> IF (k - 1) % nk = 0 THEN NoneNum ELSE (k - 1) % nk,
                   fail  |-> "none"]], full)
        \o
        AsSeq([k \in 1 .. failing |->
                  [op    |-> "search_reviews",
                   query |-> TextQuerySeq[((k - 1) \div (Len(FailSeq) - 1)) + 1],
                   top_k |-> NoneNum,
                   fail  |-> FailSeq[((k - 1) % (Len(FailSeq) - 1)) + 2]]], failing)

\* search_places and search_reviews read the corpus and their arguments
\* only, so what each call of the model does is worked out once per corpus.
RECURSIVE PlacesOutcomes(_, _, _, _)
\* the outcomes of the calls lo .. hi of calls
PlacesOutcomes(df, calls, lo, hi) ==
    IF lo > hi THEN <<>>
    ELSE IF lo = hi THEN
        LET c == calls[lo]
        IN  << search_places(df, c.query, c.top_k, c.min_reviews, c.aggregation, c.fail) >>
    ELSE LET mid == (lo + hi) \div 2
         IN  PlacesOutcomes(df, calls, lo, mid) \o PlacesOutcomes(df, calls, mid + 1, hi)

RECURSIVE ReviewsOutcomes(_, _, _, _)
ReviewsOutcomes(df, calls, lo, hi) ==
    IF lo > hi THEN <<>>
    ELSE IF lo = hi THEN
        LET c == calls[lo]
        IN  << search_reviews(df, c.query,
                              IF c.top_k = NoneNum THEN REVIEWS_TOP_K ELSE c.top_k,
                              c.fail) >>
    ELSE LET mid == (lo + hi) \div 2
         IN  ReviewsOutcomes(df, calls, lo, mid) \o ReviewsOutcomes(df, calls, mid + 1, hi)

PlacesTable ==
    << PlacesOutcomes(Corpora[1], PlacesCallSeq, 1, Len(PlacesCallSeq)),
       PlacesOutcomes(Corpora[2], PlacesCallSeq, 1, Len(PlacesCallSeq)) >>

ReviewsTable ==
    << ReviewsOutcomes(Corpora[1], ReviewsCallSeq, 1, Len(ReviewsCallSeq)),
       ReviewsOutcomes(Corpora[2], ReviewsCallSeq, 1, Len(ReviewsCallSeq)) >>

\* the corpus the engine runs on, as a position in Corpora
CorpusNo == CHOOSE c \in 1 .. Len(Corpora) : Corpora[c] = reviews_df

\* ------------------------------------------------------ the state machine

\* __init__: the reviews without a place are removed, the cache is unset
Init ==
    /\ reviews_df \in {Corpora[c] : c \in 1 .. Len(Corpora)}
    /\ last_relevant_reviews = NoFrame
    /\ last_query_sentiment = None
    /\ index_calls = 0
    /\ encode_calls = 0
    /\ sentiment_calls = 0
    /\ call = [op |-> "init"]
    /\ ret = [raised |-> None, value |-> <<>>]

\* the effects of the search_places call c, out being what it does
DoSearchPlaces(c, out) ==
    /\ last_relevant_reviews' =
           IF out.cache_written THEN Frame(out.capped) ELSE last_relevant_reviews
    /\ last_query_sentiment' =
           IF out.lqs_written THEN out.query_sentiment ELSE last_query_sentiment
    /\ index_calls' = out.index_calls
    /\ encode_calls' = out.encode_calls
    /\ sentiment_calls' = out.sentiment_calls
    /\ call' = c
    /\ ret' = [raised |-> out.raised, value |-> out.rows, pool |-> out.pool]
    /\ UNCHANGED reviews_df

SearchPlaces ==
    \E i \in DOMAIN PlacesCallSeq :
        DoSearchPlaces(PlacesCallSeq[i], PlacesTable[CorpusNo][i])

\* the effects of the search_reviews call c, out being what it does
DoSearchReviews(c, out) ==
    /\ last_query_sentiment' =
           IF out.lqs_written THEN out.query_sentiment ELSE last_query_sentiment
    /\ index_calls' = out.index_calls
    /\ encode_calls' = out.encode_calls
    /\ sentiment_calls' = out.sentiment_calls
    /\ call' = c
    /\ ret' = [raised |-> out.raised, value |-> out.rows]
    /\ UNCHANGED <<reviews_df, last_relevant_reviews>>

SearchReviews ==
    \E i \in DOMAIN ReviewsCallSeq :
        DoSearchReviews(ReviewsCallSeq[i], ReviewsTable[CorpusNo][i])

\* a get_place_highlights that keeps the place's reviews as the new cache
GetPlaceHighlightsCaching ==
    \E place_firm_id \in PlaceArgs, top_k \in HighlightKArgs :
        /\ call' = [op |-> "get_place_highlights", place_firm_id |-> place_firm_id,
                    top_k |-> top_k]
        /\ ret' = [raised |-> None,
                   value  |-> get_place_highlights(last_relevant_reviews, place_firm_id, top_k),
                   rows   |-> HighlightRows(last_relevant_reviews, place_firm_id, top_k)]
        /\ index_calls' = 0
        /\ encode_calls' = 0
        /\ sentiment_calls' = 0
        /\ last_relevant_reviews' =
               IF last_relevant_reviews.none THEN last_relevant_reviews
               ELSE Frame(PlaceReviews(last_relevant_reviews, place_firm_id))
        /\ UNCHANGED <<reviews_df, last_query_sentiment>>

\* get_place_highlights(place_firm_id, top_k=top_k): a read of the cache
GetPlaceHighlights ==
    \E place_firm_id \in PlaceArgs, top_k \in HighlightKArgs :
        /\ call' = [op |-> "get_place_highlights", place_firm_id |-> place_firm_id,
                    top_k |-> top_k]
        /\ ret' = [raised |-> None,
                   value  |-> get_place_highlights(last_relevant_reviews, place_firm_id, top_k),
                   rows   |-> HighlightRows(last_relevant_reviews, place_firm_id, top_k)]
        /\ index_calls' = 0
        /\ encode_calls' = 0
        /\ sentiment_calls' = 0
        /\ UNCHANGED <<reviews_df, last_relevant_reviews, last_query_sentiment>>

GetPlaceSentimentStats ==
    \E place_firm_id \in PlaceArgs :
        /\ call' = [op |-> "get_place_sentiment_stats", place_firm_id |-> place_firm_id]
        /\ ret' = [raised |-> None,
                   value  |-> get_place_sentiment_stats(last_relevant_reviews, place_firm_id)]
        /\ index_calls' = 0
        /\ encode_calls' = 0
        /\ sentiment_calls' = 0
        /\ UNCHANGED <<reviews_df, last_relevant_reviews, last_query_sentiment>>

Next ==
    \/ SearchPlaces
    \/ SearchReviews
    \/ GetPlaceHighlights
    \/ GetPlaceSentimentStats

Spec == Init /\ [][Next]_vars

\* ------------------------------------------- one review closer to the query

\* The similarities the raised review is given, in 1/1000.
RaisedTo == {400, 1000}

\* self.index.search(...) on an index in which the review at position id has
\* similarity to with the query and every other review the similarity it has
IndexSearchRaised(q, k, id, to) ==
    LET all == IndexSearch(q, INDEX_NTOTAL)
        moved == SubSeq([i \in 1 .. Len(all) |->
                            IF all[i].id = id THEN [id |-> id, dist |-> to] ELSE all[i]],
                        1, Len(all))
    IN  Head_(SortDesc(moved, "dist", <<>>), k)

\* search_reviews on that index, for the normalized query q
SearchRaised(df, q, query_sentiment, top_k, id, to) ==
    FilterAndTake(NotNaPlace(ScoreAll(df, ValidMask(df, IndexSearchRaised(q, Min(top_k * OVERFETCH, INDEX_NTOTAL), id, to)), query_sentiment)), query_sentiment, top_k, "none")

\* search_places(query, min_reviews=min_reviews_arg, aggregation="weighted")
\* on that index
search_places_raised(df, query, min_reviews_arg, id, to) ==
    PlacesOfReviews(SearchRaised(df, normalize_text(query), get_query_sentiment(normalize_text(query)), PLACES_REVIEW_CEILING, id, to), DEFAULT_TOP_K, OrDefault(min_reviews_arg, DEFAULT_MIN_REVIEWS), "weighted")

\* A fresh engine and the search to compare: a query, the review to move
\* and the similarity to give it, higher than the one it has.
InitRaise ==
    /\ reviews_df \in {Corpora[c] : c \in 1 .. Len(Corpora)}
    /\ last_relevant_reviews = NoFrame
    /\ last_query_sentiment = None
    /\ index_calls = 0
    /\ encode_calls = 0
    /\ sentiment_calls = 0
    /\ \E i \in DOMAIN TextQuerySeq, id \in Ids, to \in RaisedTo,
          min_reviews \in {NoneNum} \cup (1 .. MaxMinReviews) :
          /\ to > Similarity(normalize_text(TextQuerySeq[i]), id)
          /\ call = [op |-> "init", query |-> TextQuerySeq[i], id |-> id, to |-> to,
                     min_reviews |-> min_reviews, aggregation |-> "weighted",
                     top_k |-> NoneNum, fail |-> "none"]
    /\ ret = [raised |-> None, value |-> <<>>]

\* the effects of the search on the index with the review moved, after being
\* what it does and before what the search does on the index as it is
DoSearchRaised(before, after) ==
    /\ last_relevant_reviews' =
           IF after.cache_written THEN Frame(after.capped) ELSE last_relevant_reviews
    /\ last_query_sentiment' =
           IF after.lqs_written THEN after.query_sentiment ELSE last_query_sentiment
    /\ index_calls' = after.index_calls
    /\ encode_calls' = after.encode_calls
    /\ sentiment_calls' = after.sentiment_calls
    /\ call' = [call EXCEPT !.op = "search_places"]
    /\ ret' = [raised |-> after.raised, value |-> after.rows, pool |-> after.pool,
               before |-> before.rows, capped_before |-> before.capped]
    /\ UNCHANGED reviews_df

\* search_places on the index with the review of the call moved
SearchPlacesRaised ==
    /\ call.op = "init"
    /\ DoSearchRaised(search_places(reviews_df, call.query, NoneNum, call.min_reviews, "weighted", "none"),
                      search_places_raised(reviews_df, call.query, call.min_reviews, call.id, call.to))

NextRaise == SearchPlacesRaised

SpecRaise == InitRaise /\ [][NextRaise]_vars

\* ------------------------------------------------ two clients, one engine

\* The engine of app.py is one object for all sessions (st.cache_resource),
\* and every session calls it from a thread of its own. A search_places call
\* is two steps here, with the calls of the other client free to run in
\* between: search_reviews (line 230), which writes _last_query_sentiment,
\* and the rest (lines 232 to 342), which writes _last_relevant_reviews and
\* reads _last_query_sentiment.
Clients == {"A", "B"}

OtherClient(c) == CHOOSE o \in Clients : o # c

\* top_k of get_place_highlights when omitted
HIGHLIGHTS_TOP_K == 3

\* the places the clients ask highlights for
ClientPlaces == {101, 102}

\* The searches the clients make, all with top_k, min_reviews and
\* aggregation omitted: a positive query, a negative one and one without
\* relevant reviews, and the positive one with the encoder failing.
ClientCallSeq ==
    << [op |-> "search_reviews", query |-> QueryA, top_k |-> PLACES_REVIEW_CEILING, fail |-> "none"],
       [op |-> "search_reviews", query |-> QueryB, top_k |-> PLACES_REVIEW_CEILING, fail |-> "none"],
       [op |-> "search_reviews", query |-> QueryD, top_k |-> PLACES_REVIEW_CEILING, fail |-> "none"],
       [op |-> "search_reviews", query |-> QueryA, top_k |-> PLACES_REVIEW_CEILING, fail |-> "encode"] >>

\* what line 230 gives each of these searches
ClientScoredTable == ReviewsOutcomes(Corpora[1], ClientCallSeq, 1, Len(ClientCallSeq))

LabelSeq == << "positive", "negative", "neutral" >>

\* Lines 237 to 342 of search_places for the rows sr of search_reviews, with
\* label being what line 249 reads from self._last_query_sentiment.
AggregateWithLabel(sr, label, top_k, min_reviews, aggregation) ==
    CacheAndAggregate([sr EXCEPT !.query_sentiment = label], PerPlaceCap(sr.rows), top_k, min_reviews, aggregation)

RECURSIVE FinishOutcomes(_, _)
\* what the second step does for the rows sr under the labels from
\* position l of LabelSeq on
FinishOutcomes(sr, l) ==
    IF l > Len(LabelSeq) THEN <<>>
    ELSE << AggregateWithLabel(sr, LabelSeq[l], DEFAULT_TOP_K, DEFAULT_MIN_REVIEWS, DEFAULT_AGGREGATION) >>
         \o FinishOutcomes(sr, l + 1)

RECURSIVE FinishTableFrom(_)
FinishTableFrom(i) ==
    IF i > Len(ClientCallSeq) THEN <<>>
    ELSE << IF ClientScoredTable[i].rows = <<>> THEN <<>>
            ELSE FinishOutcomes(ClientScoredTable[i], 1) >>
         \o FinishTableFrom(i + 1)

\* the second step of every search of ClientCallSeq under every label
ClientFinishTable == FinishTableFrom(1)

LabelNo(label) == CHOOSE l \in DOMAIN LabelSeq : LabelSeq[l] = label

\* What the model keeps of a client: the number in ClientCallSeq of its last
\* finished search_places (search), what that call raised, the ranking it
\* returned (value) and the label it aggregated with, the capped reviews its
\* last search_places that wrote the cache put there (reviews), whether the
\* other client has since finished a search_places ("returned") or one that
\* wrote the cache ("wrote"), and the rows and the texts of its last
\* get_place_highlights.
NoResult ==
    [search |-> 0, raised |-> None, value |-> <<>>, reviews |-> <<>>, label_used |-> None,
     other |-> "none", rows |-> <<>>, highlights |-> <<>>]

\* the result of client c's search i that returns or fails before line 237
EarlyResult(c, i, raised) ==
    [NoResult EXCEPT !.search = i, !.raised = raised, !.reviews = ret[c].reviews]

\* the result of client c's search that goes through line 237 to its end
LateResult(c, out) ==
    [NoResult EXCEPT !.search = call[c].no, !.raised = out.raised, !.value = out.rows,
                     !.reviews = out.capped, !.label_used = last_query_sentiment]

InitClients ==
    /\ reviews_df = Corpora[1]
    /\ last_relevant_reviews = NoFrame
    /\ last_query_sentiment = None
    /\ index_calls = 0
    /\ encode_calls = 0
    /\ sentiment_calls = 0
    /\ call = [c \in Clients |-> [op |-> "init", pc |-> "idle", no |-> 0]]
    /\ ret = [c \in Clients |-> NoResult]

\* ret with the result of client c replaced and the other client told of a
\* finished search_places call
Finished(c, result, seen) ==
    [o \in Clients |->
        IF o = c THEN result
        ELSE [ret[o] EXCEPT !.other = IF seen = "wrote" \/ @ = "wrote" THEN "wrote" ELSE seen]]

\* Client c calls search_places; line 230 runs, and lines 232 to 234 when
\* it gives no rows. sr is what search_reviews does for search i.
DoBeginSearchPlaces(c, i, sr) ==
    /\ last_query_sentiment' =
           IF sr.lqs_written THEN sr.query_sentiment ELSE last_query_sentiment
    /\ index_calls' = sr.index_calls
    /\ encode_calls' = sr.encode_calls
    /\ sentiment_calls' = sr.sentiment_calls
    /\ IF sr.raised # None \/ ReturnsBeforeCacheWrite(sr.rows)
       THEN /\ call' = [call EXCEPT ![c] = [op |-> "search_places", pc |-> "idle", no |-> i]]
            /\ ret' = Finished(c, EarlyResult(c, i, sr.raised), "returned")
       ELSE /\ call' = [call EXCEPT ![c] = [op |-> "search_places", pc |-> "scored", no |-> i]]
            /\ ret' = ret
    /\ UNCHANGED <<reviews_df, last_relevant_reviews>>

BeginSearchPlaces ==
    \E c \in Clients, i \in DOMAIN ClientCallSeq :
        /\ call[c].pc = "idle"
        /\ DoBeginSearchPlaces(c, i, ClientScoredTable[i])

\* Client c's search_places goes on from line 237 to its return; out is what
\* these lines do with the label self._last_query_sentiment holds now.
DoFinishSearchPlaces(c, out) ==
    /\ last_relevant_reviews' = Frame(out.capped)
    /\ call' = [call EXCEPT ![c].pc = "idle"]
    /\ ret' = Finished(c, LateResult(c, out), "wrote")
    /\ UNCHANGED <<reviews_df, last_query_sentiment, index_calls, encode_calls,
                   sentiment_calls>>

FinishSearchPlaces ==
    \E c \in Clients :
        /\ call[c].pc = "scored"
        /\ DoFinishSearchPlaces(c, ClientFinishTable[call[c].no][LabelNo(last_query_sentiment)])

\* a get_place_highlights that reads the reviews the client's own search
\* has cached
ClientGetPlaceHighlightsOwn ==
    \E c \in Clients, place_firm_id \in ClientPlaces :
        /\ call[c].pc = "idle"
        /\ call' = [call EXCEPT ![c] = [op |-> "get_place_highlights", pc |-> "idle",
                                        no |-> place_firm_id]]
        /\ ret' = [ret EXCEPT
                     ![c].rows = HighlightRows(Frame(ret[c].reviews), place_firm_id,
                                               HIGHLIGHTS_TOP_K),
                     ![c].highlights = get_place_highlights(Frame(ret[c].reviews),
                                                            place_firm_id, HIGHLIGHTS_TOP_K)]
        /\ index_calls' = 0
        /\ encode_calls' = 0
        /\ sentiment_calls' = 0
        /\ UNCHANGED <<reviews_df, last_relevant_reviews, last_query_sentiment>>

\* Client c calls get_place_highlights(place_firm_id).
ClientGetPlaceHighlights ==
    \E c \in Clients, place_firm_id \in ClientPlaces :
        /\ call[c].pc = "idle"
        /\ call' = [call EXCEPT ![c] = [op |-> "get_place_highlights", pc |-> "idle",
                                        no |-> place_firm_id]]
        /\ ret' = [ret EXCEPT
                     ![c].rows = HighlightRows(last_relevant_reviews, place_firm_id,
                                               HIGHLIGHTS_TOP_K),
                     ![c].highlights = get_place_highlights(last_relevant_reviews,
                                                            place_firm_id, HIGHLIGHTS_TOP_K)]
        /\ index_calls' = 0
        /\ encode_calls' = 0
        /\ sentiment_calls' = 0
        /\ UNCHANGED <<reviews_df, last_relevant_reviews, last_query_sentiment>>

NextClients ==
    \/ BeginSearchPlaces
    \/ FinishSearchPlaces
    \/ ClientGetPlaceHighlights

SpecClients == InitClients /\ [][NextClients]_vars

\* ------------------------------------------------------------ the claims

\* the elements of a sequence
Range(s) == {s[i] : i \in DOMAIN s}

\* the rows of a cache that belong to place p, in the order of the cache
CachedReviewsIn(cache, p) == SelectSeq(cache.rows, LAMBDA r : r.place_firm_id = p)

CachedReviewsOf(p) == CachedReviewsIn(last_relevant_reviews, p)

IsSearch(c) == c.op \in {"search_places", "search_reviews"}

IsRead(c) == c.op \in {"get_place_highlights", "get_place_sentiment_stats"}

NoStats == [positive |-> 0, negative |-> 0, neutral |-> 0]

\* the label counts of a sequence of scored reviews
LabelCounts(rows) ==
    [positive |-> Cardinality({i \in DOMAIN rows : rows[i].sentiment_label = "positive"}),
     negative |-> Cardinality({i \in DOMAIN rows : rows[i].sentiment_label = "negative"}),
     neutral  |-> Cardinality({i \in DOMAIN rows : rows[i].sentiment_label = "neutral"})]

\* the min_reviews a search_places call works with
MinReviewsInEffect ==
    IF call.min_reviews \in {NoneNum, 0} THEN DEFAULT_MIN_REVIEWS ELSE call.min_reviews

\* C1: every row of a ranking search_places returns has review_count >= the
\* min_reviews in effect for the call, the place of the row has that many
\* reviews in the capped set the call cached, and when no cached place
\* reaches min_reviews the ranking is empty.
MinReviewsRespected ==
    (call.op = "search_places" /\ ret.raised = None) =>
        /\ \A i \in DOMAIN ret.value :
              /\ ret.value[i].review_count >= MinReviewsInEffect
              /\ Len(CachedReviewsOf(ret.value[i].place_firm_id)) >= MinReviewsInEffect
        /\ (\A r \in Range(last_relevant_reviews.rows) :
               Len(CachedReviewsOf(r.place_firm_id)) < MinReviewsInEffect)
           => ret.value = <<>>

\* C1, its case: a ranking under the default min_reviews of 3 while place
\* 102 has two retained reviews and is not ranked.
MinReviewsExcludesPlace ==
    /\ call.op = "search_places"
    /\ ret.raised = None
    /\ call.min_reviews = NoneNum
    /\ ret.value # <<>>
    /\ Len(CachedReviewsOf(102)) = 2
    /\ \A i \in DOMAIN ret.value : ret.value[i].place_firm_id # 102

\* what search_reviews gives the search_places call that has just returned
ScoredByThisCall ==
    search_reviews(reviews_df, call.query, PLACES_REVIEW_CEILING, call.fail).rows

\* C2: after a search_places call that had scored reviews to cap, every place
\* has at most 15 reviews in the cached set, the set is part of what
\* search_reviews returned, and a review left out belongs to a place with 15
\* kept reviews none of which scores lower than it.
PerPlaceCapKeepsBest ==
    (call.op = "search_places" /\ ret.pool > 0) =>
        LET scored == Range(ScoredByThisCall)
            kept   == Range(last_relevant_reviews.rows)
            of(p)  == {k \in kept : k.place_firm_id = p}
        IN  /\ kept \subseteq scored
            /\ \A k \in kept : Cardinality(of(k.place_firm_id)) <= PER_PLACE_CAP
            /\ \A d \in scored \ kept :
                  /\ Cardinality(of(d.place_firm_id)) = PER_PLACE_CAP
                  /\ \A k \in of(d.place_firm_id) :
                        d.final_review_score <= k.final_review_score

\* C2, its case: the cap has dropped a review.
CapDropsReview ==
    /\ call.op = "search_places"
    /\ ret.pool > Len(last_relevant_reviews.rows)
    /\ Len(last_relevant_reviews.rows) > 0

\* C3: when search_places returns, the cache holds the capped scored reviews
\* of that call and the sentiment label of that call's query.
CacheHoldsReturnedCall ==
    (call.op = "search_places" /\ ret.raised = None) =>
        /\ Range(last_relevant_reviews.rows) = Range(PerPlaceCap(ScoredByThisCall))
        /\ last_query_sentiment = get_query_sentiment(normalize_text(call.query))

\* C4: a read that follows a search_places call which returned an empty list
\* for want of candidates finds nothing, whatever the place.
EmptySearchClearsCache ==
    [][(call.op = "search_places" /\ ret.raised = None /\ ret.pool = 0 /\ IsRead(call'))
       => /\ call'.op = "get_place_highlights" => ret'.value = <<>>
          /\ call'.op = "get_place_sentiment_stats" => ret'.value = NoStats]_vars

\* the position in reviews_df of the row with index label l
PositionOf(l) == CHOOSE i \in 0 .. (Len(reviews_df) - 1) : Iloc(reviews_df, i).label = l

\* C5: get_place_highlights(p, k) right after a search_places call that ranked
\* p returns one text per selected review; every selected review is cached
\* for p, carries the similarity of that call's query to its vector, and is
\* the review whose text is returned; the selection is in descending order of
\* final_review_score.
HighlightsRoundTrip ==
    [][(/\ call.op = "search_places"
        /\ ret.raised = None
        /\ call'.op = "get_place_highlights"
        /\ \E i \in DOMAIN ret.value : ret.value[i].place_firm_id = call'.place_firm_id)
       => LET p     == call'.place_firm_id
              q     == normalize_text(call.query)
              rows  == ret'.rows
              texts == ret'.value
          IN  /\ Len(texts) = Len(rows)
              /\ \A i \in DOMAIN rows :
                    /\ rows[i].place_firm_id = p
                    /\ rows[i] \in Range(last_relevant_reviews'.rows)
                    /\ rows[i].similarity_score = Similarity(q, PositionOf(rows[i].label))
                    /\ SubSeq(texts[i], 3, Len(texts[i]))
                          = normalize_text(TextOf(rows[i].label))
              /\ \A i, j \in DOMAIN rows :
                    i < j => rows[i].final_review_score >= rows[j].final_review_score]_vars

\* C5, its case: highlights of a ranked place right after the search, with
\* reviews of other places in the cache.
HighlightsOfRankedPlace ==
    /\ call.op = "get_place_highlights"
    /\ Len(ret.value) >= 2
    /\ \E r \in Range(last_relevant_reviews.rows) : r.place_firm_id # call.place_firm_id

\* the marker of a sentiment label
MarkerOf(label) ==
    CASE label = "positive" -> "[+]"
      [] label = "negative" -> "[-]"
      [] label = "neutral"  -> "[~]"

\* the rank of the i-th of rows by final_review_score, the earlier row first
\* among equals
RankIn(rows, i) ==
    Cardinality({j \in DOMAIN rows :
                    \/ rows[j].final_review_score > rows[i].final_review_score
                    \/ /\ rows[j].final_review_score = rows[i].final_review_score
                       /\ j < i})

\* the text of a scored review has more than 20 characters between its
\* leading and trailing white space
HasLongText(r) == TextOf(r.label).str /\ Len(Strip(TextOf(r.label).s)) > 20

\* C6 as stated: get_place_highlights(p, top_k) returns exactly min(top_k, n)
\* entries, n the number of reviews cached for p.
HighlightsCountIsMin ==
    call.op = "get_place_highlights" =>
        Len(ret.value) = Min(call.top_k, Len(CachedReviewsOf(call.place_firm_id)))

\* C6 amended: the entries of get_place_highlights(p, top_k) are, in
\* descending order of final_review_score, those of the top_k highest-scoring
\* reviews cached for p whose text has more than 20 characters once stripped;
\* each is the marker of its review's label, a space and the normalized
\* text; so there are at most min(top_k, n) of them.
HighlightsAreLongTopTexts ==
    call.op = "get_place_highlights" =>
        LET mine == CachedReviewsOf(call.place_firm_id)
            top  == {i \in DOMAIN mine : RankIn(mine, i) < call.top_k}
            long == {i \in top : HasLongText(mine[i])}
            rows == ret.rows
        IN  /\ Len(ret.value) = Cardinality(long)
            /\ Len(ret.value) <= Min(call.top_k, Len(mine))
            /\ Len(rows) = Len(ret.value)
            /\ Range(rows) = {mine[i] : i \in long}
            /\ \A i, j \in DOMAIN rows :
                  i < j => rows[i].final_review_score >= rows[j].final_review_score
            /\ \A i \in DOMAIN rows :
                  ret.value[i] = << MarkerOf(rows[i].sentiment_label), "sp" >>
                                    \o normalize_text(TextOf(rows[i].label))

\* C6, its case: a review among the top_k of the place has a short text, and
\* the others are returned.
HighlightsSkipShortText ==
    /\ call.op = "get_place_highlights"
    /\ ret.value # <<>>
    /\ Len(ret.value) < Min(call.top_k, Len(CachedReviewsOf(call.place_firm_id)))

\* C7: with the cache unset, or without a cached review of the place asked
\* for, get_place_highlights returns the empty list and
\* get_place_sentiment_stats zeros, and neither raises.
AbsentPlaceReadsNothing ==
    (IsRead(call) /\ (last_relevant_reviews.none
                      \/ CachedReviewsOf(call.place_firm_id) = <<>>)) =>
        /\ ret.raised = None
        /\ call.op = "get_place_highlights" => ret.value = <<>>
        /\ call.op = "get_place_sentiment_stats" => ret.value = NoStats

\* C7, its case: stats asked for a place without cached reviews while the
\* cache holds reviews of other places.
StatsOfAbsentPlace ==
    /\ call.op = "get_place_sentiment_stats"
    /\ ~last_relevant_reviews.none
    /\ last_relevant_reviews.rows # <<>>
    /\ CachedReviewsOf(call.place_firm_id) = <<>>

\* C8: get_place_sentiment_stats(p) returns the number of cached reviews of p
\* under each label; called right after a search_places call it returns, for
\* a place of the ranking, the three counts of the place's row, which sum to
\* the row's review_count.
StatsMatchRanking ==
    [][call'.op = "get_place_sentiment_stats"
       => LET p     == call'.place_firm_id
              stats == ret'.value
          IN  /\ stats = LabelCounts(CachedReviewsIn(last_relevant_reviews', p))
              /\ (call.op = "search_places" /\ ret.raised = None) =>
                    \A i \in DOMAIN ret.value :
                        ret.value[i].place_firm_id = p =>
                            /\ stats.positive = ret.value[i].positive_reviews
                            /\ stats.negative = ret.value[i].negative_reviews
                            /\ stats.neutral = ret.value[i].neutral_reviews
                            /\ stats.positive + stats.negative + stats.neutral
                                  = ret.value[i].review_count]_vars

\* C8, its case: stats with reviews under two labels at least, of a place
\* that has the full 15 reviews in the cache.
StatsOfCappedPlace ==
    /\ call.op = "get_place_sentiment_stats"
    /\ Len(CachedReviewsOf(call.place_firm_id)) = PER_PLACE_CAP
    /\ Cardinality({l \in {"positive", "negative", "neutral"} : ret.value[l] > 0}) >= 2

\* C9: a call of get_place_highlights or get_place_sentiment_stats leaves
\* the cached reviews and the last query sentiment as they were and calls
\* neither the index, nor the embedding model, nor the sentiment classifier.
ReadsArePure ==
    [][IsRead(call')
       => /\ last_relevant_reviews' = last_relevant_reviews
          /\ last_query_sentiment' = last_query_sentiment
          /\ index_calls' = 0
          /\ encode_calls' = 0
          /\ sentiment_calls' = 0]_vars

\* C9, its case: a read has returned highlights from a populated cache.
ReadOfPopulatedCache ==
    /\ call.op = "get_place_highlights"
    /\ last_query_sentiment # None
    /\ ret.value # <<>>
    /\ Len(last_relevant_reviews.rows) > Len(ret.value)

\* C10: a search whose query normalizes to the empty text raises ValueError
\* and has called neither the index, nor the embedding model, nor the
\* classifier.
EmptyQueryFailsFast ==
    (IsSearch(call) /\ normalize_text(call.query) = <<>>) =>
        /\ ret.raised = "ValueError"
        /\ index_calls = 0
        /\ encode_calls = 0
        /\ sentiment_calls = 0

\* C10, its case: search_places refused a query of white space only.
WhitespaceQueryRefused ==
    /\ call.op = "search_places"
    /\ call.query.str
    /\ call.query.s # <<>>
    /\ \A i \in DOMAIN call.query.s : call.query.s[i] \in {"sp", "tab", "nbsp"}
    /\ ret.raised = "ValueError"

\* the aggregation argument of the search_places call c names no strategy
NamesNoStrategy(c) ==
    c.op = "search_places" /\ c.aggregation \notin {None, "mean", "max", "weighted"}

\* C11: a search_places call with a query that has text, no upstream
\* failure and an aggregation argument that names no strategy raises
\* ValueError.
UnknownAggregationRaises ==
    (NamesNoStrategy(call) /\ call.fail = "none" /\ normalize_text(call.query) # <<>>)
        => ret.raised = "ValueError"

\* C12: a search_places call that raises ValueError for its aggregation
\* argument has called neither the classifier nor the index, and leaves the
\* cached reviews and the last query sentiment as they were.
UnknownAggregationRejectedFirst ==
    [][(NamesNoStrategy(call') /\ ret'.raised = "ValueError"
        /\ normalize_text(call'.query) # <<>>)
       => /\ sentiment_calls' = 0
          /\ index_calls' = 0
          /\ last_relevant_reviews' = last_relevant_reviews
          /\ last_query_sentiment' = last_query_sentiment]_vars

\* the upstream call that search_places call c is set to find failing has
\* been made: the query classification is the first classifier call, the
\* review classification the second
FailingCallMade(c) ==
    \/ c.fail = "query_sentiment" /\ sentiment_calls >= 1
    \/ c.fail = "encode" /\ encode_calls >= 1
    \/ c.fail = "review_sentiment" /\ sentiment_calls >= 2

\* C13: when the embedding of the query or a sentiment classification, of
\* the query or of the candidate reviews, fails during a search_places
\* call, the call raises that failure and returns no list.
UpstreamFailurePropagates ==
    (call.op = "search_places" /\ FailingCallMade(call)) =>
        /\ ret.raised = "UpstreamFailure"
        /\ ret.value = <<>>

\* C13, its case: the classification of the candidate reviews has failed,
\* after the query was classified, embedded and searched.
ReviewClassificationFailed ==
    /\ call.op = "search_places"
    /\ call.fail = "review_sentiment"
    /\ sentiment_calls = 2
    /\ index_calls = 1
    /\ ret.raised = "UpstreamFailure"

\* the label of the query of search call c
QuerySentimentOf(c) == get_query_sentiment(normalize_text(c.query))

\* the top_k search_reviews works with in search call c
ReviewsTopKOf(c) ==
    IF c.op = "search_places" THEN PLACES_REVIEW_CEILING
    ELSE IF c.top_k = NoneNum THEN REVIEWS_TOP_K ELSE c.top_k

\* the candidate reviews search call c scores: those the index returns that
\* are rows of the corpus with a place, scored
CandidatesOf(c) ==
    NotNaPlace(ScoreAll(reviews_df,
                        ValidMask(reviews_df,
                                  IndexSearch(normalize_text(c.query),
                                              Min(ReviewsTopKOf(c) * OVERFETCH, INDEX_NTOTAL))),
                        QuerySentimentOf(c)))

\* the scored reviews search call c hands on: those search_reviews returns,
\* those search_places caches
ReviewsGivenBy(c) ==
    IF c.op = "search_reviews" THEN Range(ret.value)
    ELSE IF ret.pool > 0 THEN Range(last_relevant_reviews.rows)
    ELSE {}

\* the weight of a review sentiment label, in 1/10
WeightOfLabel(label) ==
    CASE label = "positive" -> 12 [] label = "neutral" -> 10 [] label = "negative" -> 8

\* the alignment of a review label with a query label, in 1/100
AlignmentOfLabels(query_label, label) ==
    CASE query_label = "neutral"  -> 100
      [] query_label = "negative" ->
            (CASE label = "positive" -> 5 [] label = "negative" -> 250 [] label = "neutral" -> 50)
      [] query_label = "positive" ->
            (CASE label = "negative" -> 5 [] label = "positive" -> 200 [] label = "neutral" -> 70)

\* C14: the final_review_score of every candidate of a search, and of every
\* review the search returns, is similarity x weight x alignment, with weight
\* 1.2 / 1.0 / 0.8 for a positive / neutral / negative review and alignment
\* 1.0 under a neutral query, 0.05 / 2.5 / 0.5 for a positive / negative /
\* neutral review under a negative query and 0.05 / 2.0 / 0.7 for a negative
\* / positive / neutral review under a positive query; at similarity 0.9
\* under a negative query a negative review scores 1.8 and a positive one
\* 0.054.
ReviewScoreIsProduct ==
    /\ FinalReviewScore(900, sentiment_to_weight("negative"),
                        align_sentiment("negative", "negative")) = 1800000
    /\ FinalReviewScore(900, sentiment_to_weight("positive"),
                        align_sentiment("negative", "positive")) = 54000
    /\ (IsSearch(call) /\ index_calls = 1) =>
          /\ \A r \in Range(CandidatesOf(call)) \cup ReviewsGivenBy(call) :
                /\ r.sentiment_label = ReviewSentiment(r)
                /\ r.final_review_score
                       = r.similarity_score * WeightOfLabel(r.sentiment_label)
                           * AlignmentOfLabels(QuerySentimentOf(call), r.sentiment_label)
          /\ \A r \in ReviewsGivenBy(call) :
                r.similarity_score
                    = Similarity(normalize_text(call.query), PositionOf(r.label))

\* C14, its case: a search with a negative query has returned a negative
\* review at 2.0 times its similarity and a neutral one at 0.5 times, and
\* has scored a positive candidate at 0.06 times.
NegativeQueryScored ==
    /\ call.op = "search_reviews"
    /\ ret.raised = None
    /\ QuerySentimentOf(call) = "negative"
    /\ \E r \in Range(ret.value) :
          r.sentiment_label = "negative" /\ r.final_review_score = r.similarity_score * 2000
    /\ \E r \in Range(ret.value) :
          r.sentiment_label = "neutral" /\ r.final_review_score = r.similarity_score * 500
    /\ \E r \in Range(CandidatesOf(call)) :
          r.sentiment_label = "positive" /\ r.final_review_score = r.similarity_score * 60

\* the relevance threshold under a query label, in 1/1000000
ThresholdUnder(query_label) == IF query_label = "negative" THEN 150000 ELSE 200000

\* C15: a search_reviews call with top_k omitted returns exactly the
\* candidates whose final_review_score is not below the threshold, 0.15
\* under a negative query and 0.20 otherwise: a candidate scoring exactly
\* the threshold is returned.
ThresholdKeepsEqualScore ==
    (call.op = "search_reviews" /\ call.top_k = NoneNum /\ ret.raised = None
     /\ index_calls = 1) =>
        Range(ret.value) =
            {c \in Range(CandidatesOf(call)) :
                c.final_review_score >= ThresholdUnder(QuerySentimentOf(call))}

\* the top_k a search_places call is given: the default when omitted
TopKGiven == IF call.top_k = NoneNum THEN DEFAULT_TOP_K ELSE call.top_k

\* C16: a ranking search_places returns has at most top_k rows, top_k being
\* the argument of the call or the default when it is omitted, and its
\* final_score never rises from one row to the next, under every strategy.
RankingWithinTopK ==
    (call.op = "search_places" /\ ret.raised = None) =>
        /\ Len(ret.value) <= TopKGiven
        /\ \A i, j \in DOMAIN ret.value :
              i < j => ret.value[i].final_score >= ret.value[j].final_score

\* the top_k a search_places call works with
TopKInEffect == IF call.top_k \in {NoneNum, 0} THEN DEFAULT_TOP_K ELSE call.top_k

\* the strategy a search_places call works with
AggregationInEffect ==
    IF call.aggregation = None THEN DEFAULT_AGGREGATION ELSE call.aggregation

\* the places of the cached reviews that have min_reviews reviews, with
\* their final_score under the strategy of the call
EligiblePlaces ==
    WithFinalScore(MinReviewsFilter(Aggregate(last_relevant_reviews.rows), MinReviewsInEffect),
                   AggregationInEffect, QuerySentimentOf(call))

\* the names the places table has for place p
NamesOf(p) == {m.name : m \in {h \in Range(places_df) : h.firm_id = p}}

\* C17: in a ranking search_places returns no two rows have the same name,
\* no row has a missing name or the name 'nan', and the row of a name has
\* a final_score no lower than any over-fetched place of that name.
NamesAreUnique ==
    (call.op = "search_places" /\ ret.raised = None /\ ret.value # <<>>) =>
        /\ \A i, j \in DOMAIN ret.value : i # j => ret.value[i].name # ret.value[j].name
        /\ \A i \in DOMAIN ret.value :
              /\ ret.value[i].name \notin {None, "nan"}
              /\ ret.value[i].name \in NamesOf(ret.value[i].place_firm_id)
              /\ \A o \in Range(OverFetch(EligiblePlaces, TopKInEffect)) :
                    ret.value[i].name \in NamesOf(o.place_firm_id)
                        => o.final_score <= ret.value[i].final_score

\* C17, its case: a ranking with place 102 for the name Bar, while place 104
\* of the same name, place 105 named 'nan' and place 106 without a name are
\* over-fetched too.
DuplicateNameDropped ==
    /\ call.op = "search_places"
    /\ ret.raised = None
    /\ \E i \in DOMAIN ret.value :
          ret.value[i].name = "Bar" /\ ret.value[i].place_firm_id = 102
    /\ {104, 105, 106} \subseteq
           {o.place_firm_id : o \in Range(OverFetch(EligiblePlaces, TopKInEffect))}
    /\ \E o \in Range(EligiblePlaces) :
          o.place_firm_id = 104 /\ \A i \in DOMAIN ret.value :
                                      ret.value[i].name = "Bar"
                                          => o.final_score < ret.value[i].final_score

ScoresNeverNegative ==
    (IsSearch(call) /\ index_calls = 1) =>
        /\ \A c \in Range(CandidatesOf(call)) : c.final_review_score >= 0
        /\ call.op = "search_places" =>
              \A i \in DOMAIN ret.value : ret.value[i].final_score >= 0

\* C20: every review in the cache and every review search_reviews returns
\* has a final_review_score above zero, and every place of a ranking
\* search_places returns has a final_score and an avg_score of at least
\* zero.
StoredScoresNotNegative ==
    /\ \A r \in Range(last_relevant_reviews.rows) : r.final_review_score > 0
    /\ call.op = "search_reviews" =>
          \A r \in Range(ret.value) : r.final_review_score > 0
    /\ call.op = "search_places" =>
          \A i \in DOMAIN ret.value :
              ret.value[i].final_score >= 0 /\ ret.value[i].avg_score >= 0

\* C20, its case: a search_places call that has scored a candidate of
\* negative similarity below zero and has returned a ranking.
NegativeCandidateDropped ==
    /\ call.op = "search_places"
    /\ ret.raised = None
    /\ ret.value # <<>>
    /\ \E c \in Range(CandidatesOf(call)) :
          c.similarity_score < 0 /\ c.final_review_score < 0

\* the final_score of place p among the places that have min_reviews
\* reviews in capped, or NoneNum when p is not one of them
FinalScoreIn(capped, p) ==
    LET mine == SelectSeq(WithFinalScore(MinReviewsFilter(Aggregate(capped), MinReviewsInEffect),
                                         "weighted", QuerySentimentOf(call)),
                          LAMBDA r : r.place_firm_id = p)
    IN  IF mine = <<>> THEN NoneNum ELSE mine[1].final_score

\* the position of place p in a ranking, or 0 when it is not ranked
RankOf(ranking, p) ==
    IF \E i \in DOMAIN ranking : ranking[i].place_firm_id = p
    THEN CHOOSE i \in DOMAIN ranking : ranking[i].place_firm_id = p
    ELSE 0

\* the place of the review moved by the call
RaisedPlace == PlaceOf(call.id)

\* place p has the same final_score or a higher one, and the same rank or a
\* better one, in the search on the moved index as in the search before
NotLowered(p) ==
    /\ FinalScoreIn(ret.capped_before, p) # NoneNum
          => FinalScoreIn(last_relevant_reviews.rows, p) >= FinalScoreIn(ret.capped_before, p)
    /\ RankOf(ret.before, p) # 0
          => /\ RankOf(ret.value, p) # 0
             /\ RankOf(ret.value, p) <= RankOf(ret.before, p)

\* C19 as stated: under the weighted strategy, when one review is moved
\* closer to the query and nothing else changes, the final_score of its
\* place does not fall and its rank does not get worse.
RaisingNeverLowers ==
    (call.op = "search_places" /\ "id" \in DOMAIN call /\ ret.raised = None) =>
        NotLowered(RaisedPlace)

\* the review moved by the call was among the capped reviews before
RetainedBefore ==
    \E i \in DOMAIN ret.capped_before :
        PositionOf(ret.capped_before[i].label) = call.id

\* C19: under the weighted strategy, when a review that the search retained
\* for its place is moved closer to the query and nothing else changes, the
\* final_score of its place does not fall and its rank does not get worse.
RaisingRetainedNeverLowers ==
    (call.op = "search_places" /\ "id" \in DOMAIN call /\ ret.raised = None
     /\ RetainedBefore) =>
        NotLowered(RaisedPlace)

\* C19, its case: a retained review has been moved closer and the
\* final_score of its ranked place has risen.
RaisedRetainedReview ==
    /\ call.op = "search_places"
    /\ "id" \in DOMAIN call
    /\ RetainedBefore
    /\ RankOf(ret.before, RaisedPlace) # 0
    /\ FinalScoreIn(last_relevant_reviews.rows, RaisedPlace)
           > FinalScoreIn(ret.capped_before, RaisedPlace)

\* the candidates of search call c that belong to place p
CandidatesAt(c, p) == {r \in Range(CandidatesOf(c)) : r.place_firm_id = p}

\* the candidates of search call c for place p that pass the threshold
PassingAt(c, p) ==
    {r \in CandidatesAt(c, p) :
        r.final_review_score > ThresholdUnder(QuerySentimentOf(c))}

\* C21: the review_count of every place of a ranking search_places returns
\* is the number of reviews cached for the place, which is the number of its
\* candidates that pass the threshold, or 15 when more than 15 pass.
ReviewCountIsRetained ==
    (call.op = "search_places" /\ ret.raised = None) =>
        \A i \in DOMAIN ret.value :
            LET p == ret.value[i].place_firm_id
            IN  /\ ret.value[i].review_count = Len(CachedReviewsOf(p))
                /\ ret.value[i].review_count
                       = Min(PER_PLACE_CAP, Cardinality(PassingAt(call, p)))

\* C21, its case: a ranked place with 15 reviews counted, 16 candidates
\* that pass the threshold and 17 candidates.
CountBelowCandidates ==
    /\ call.op = "search_places"
    /\ ret.raised = None
    /\ \E i \in DOMAIN ret.value :
          /\ ret.value[i].review_count = 15
          /\ Cardinality(PassingAt(call, ret.value[i].place_firm_id)) = 16
          /\ Cardinality(CandidatesAt(call, ret.value[i].place_firm_id)) = 17

\* what the index returns for search call c that passes the validity mask
MaskedOf(c) ==
    ValidMask(reviews_df,
              IndexSearch(normalize_text(c.query),
                          Min(ReviewsTopKOf(c) * OVERFETCH, INDEX_NTOTAL)))

\* C22: every id the index returns for a search that passes the validity
\* mask and is resolved to a review is a position of the corpus, from 0 up
\* to the corpus size less one, and every scored candidate has a place.
ScoredIdsWithinCorpus ==
    (IsSearch(call) /\ index_calls = 1) =>
        /\ \A i \in DOMAIN MaskedOf(call) :
              MaskedOf(call)[i].id >= 0 /\ MaskedOf(call)[i].id < Len(reviews_df)
        /\ \A r \in Range(CandidatesOf(call)) : r.place_firm_id # NoneNum

\* the search of ClientCallSeq client c has made last
ClientSearch(c) == ClientCallSeq[call[c].no]

\* client c has just got a ranking from search_places
HasRanking(c) ==
    call[c].op = "search_places" /\ call[c].pc = "idle" /\ ret[c].label_used # None

\* C30: with two clients on one engine, the label a search_places call
\* aggregates with is the label of its own query, and its ranking is the
\* ranking the call gives when it runs alone.
AggregatesWithOwnLabel ==
    \A c \in Clients :
        HasRanking(c) =>
            /\ ret[c].label_used = QuerySentimentOf(ClientSearch(c))
            /\ ret[c].value = search_places(reviews_df, ClientSearch(c).query, NoneNum,
                                            NoneNum, None, ClientSearch(c).fail).rows

\* this step is a get_place_highlights call of client c
HighlightStepOf(c) ==
    /\ call'[c].op = "get_place_highlights"
    /\ call'[OtherClient(c)] = call[OtherClient(c)]
    /\ ret'[OtherClient(c)] = ret[OtherClient(c)]
    /\ index_calls' = 0 /\ encode_calls' = 0 /\ sentiment_calls' = 0

\* the place client c asks highlights for in this step is in the ranking of
\* its last search_places
AsksForRankedPlace(c) ==
    \E i \in DOMAIN ret[c].value : ret[c].value[i].place_firm_id = call'[c].no

\* the reviews search_reviews scored in the last finished search_places of
\* client c
ScoredFor(c) ==
    IF ret[c].search = 0 THEN {} ELSE Range(ClientScoredTable[ret[c].search].rows)

IndexIdsMatchRows ==
    (IsSearch(call) /\ index_calls = 1) =>
        \A i \in DOMAIN MaskedOf(call) :
            MaskedOf(call)[i].id >= 0
                => Iloc(reviews_df, MaskedOf(call)[i].id).label = MaskedOf(call)[i].id

\* C25: a direct call of search_reviews, whether it returns reviews,
\* returns none or fails, leaves the cached reviews and the last query
\* sentiment as they were.
SearchReviewsLeavesSession ==
    [][call'.op = "search_reviews"
       => /\ last_relevant_reviews' = last_relevant_reviews
          /\ last_query_sentiment' = last_query_sentiment]_vars

\* C26: a search_places call that refuses its query, or in which the
\* classifier or the encoder fails, leaves the cached reviews and the last
\* query sentiment as they were.
FailedSearchLeavesSession ==
    [][(/\ call'.op = "search_places"
        /\ \/ ret'.raised = "UpstreamFailure"
           \/ ret'.raised = "ValueError" /\ IsInvalidQuery(normalize_text(call'.query)))
       => /\ last_relevant_reviews' = last_relevant_reviews
          /\ last_query_sentiment' = last_query_sentiment]_vars

\* the highest final_review_score among rows
HighestScore(rows) ==
    CHOOSE m \in {rows[i].final_review_score : i \in DOMAIN rows} :
        \A i \in DOMAIN rows : rows[i].final_review_score <= m

\* the sum of the final_review_score of rows
RECURSIVE TotalScore(_)
TotalScore(rows) ==
    IF rows = <<>> THEN 0 ELSE rows[1].final_review_score + TotalScore(Tail(rows))

\* the sentiment ratio of the weighted strategy for label counts n under a
\* query label, as numerator and denominator
RatioOfCounts(n, query_label) ==
    IF query_label = "negative"
    THEN <<n.negative + 1, n.positive + n.neutral + 1>>
    ELSE <<n.positive + 1, n.negative + 1>>

\* C27: in a ranking search_places returns, final_score is the mean of the
\* place's cached review scores under mean, the highest of them under max,
\* and under weighted the mean x log1p(count) x sqrt(ratio), the ratio being
\* (negative + 1) / (positive + neutral + 1) under a negative query and
\* (positive + 1) / (negative + 1) otherwise, of the counts of the place's
\* cached reviews; numerator and denominator are above zero.
StrategyDecidesFinalScore ==
    (call.op = "search_places" /\ ret.raised = None) =>
        \A i \in DOMAIN ret.value :
            LET row   == ret.value[i]
                mine  == CachedReviewsOf(row.place_firm_id)
                n     == LabelCounts(mine)
                ratio == RatioOfCounts(n, QuerySentimentOf(call))
                mean  == TotalScore(mine) \div Len(mine)
            IN  /\ row.avg_score = mean
                /\ row.positive_reviews = n.positive
                /\ row.negative_reviews = n.negative
                /\ row.neutral_reviews = n.neutral
                /\ ratio[1] > 0 /\ ratio[2] > 0
                /\ AggregationInEffect = "mean" => row.final_score = mean
                /\ AggregationInEffect = "max" => row.final_score = HighestScore(mine)
                /\ AggregationInEffect = "weighted" =>
                      row.final_score
                          = (((((mean \div 100) * Log1p1000(Len(mine))) \div 1000)
                                * Sqrt1000(ratio[1], ratio[2])) \div 1000) * 100

\* C27, its case: a weighted ranking for a negative query with a place that
\* has negative reviews and others cached.
WeightedUnderNegativeQuery ==
    /\ call.op = "search_places"
    /\ ret.raised = None
    /\ AggregationInEffect = "weighted"
    /\ QuerySentimentOf(call) = "negative"
    /\ \E i \in DOMAIN ret.value :
          /\ ret.value[i].negative_reviews > 0
          /\ ret.value[i].positive_reviews + ret.value[i].neutral_reviews > 0

\* the names, other than a missing one and 'nan', of the places that have
\* min_reviews cached reviews
EligibleNames ==
    UNION {NamesOf(EligiblePlaces[i].place_firm_id) : i \in DOMAIN EligiblePlaces}
        \ {None, "nan"}

\* C28: a ranking search_places returns after scoring reviews has top_k
\* rows, or as many rows as there are distinct valid names among the places
\* with min_reviews reviews when these are fewer than top_k.
RankingFillsTopK ==
    (call.op = "search_places" /\ ret.raised = None /\ ret.pool > 0) =>
        Len(ret.value) = Min(TopKInEffect, Cardinality(EligibleNames))

\* C29: search_places works with the top_k and the min_reviews it is given:
\* with top_k = 0 it returns no rows, and with min_reviews = 0 it returns
\* what it returns with min_reviews = 1, every place that has a cached
\* review having at least one.
ExplicitZeroApplied ==
    (call.op = "search_places" /\ ret.raised = None) =>
        /\ call.top_k = 0 => ret.value = <<>>
        /\ (call.min_reviews = 0 /\ call.top_k # 0) =>
              ret.value = search_places(reviews_df, call.query, call.top_k, 1,
                                        call.aggregation, call.fail).rows

====
